---- MODULE Spec2Model ----
(***************************************************************************)
(* A model of install.py: one run of main(), the installer of VideoLingo.  *)
(* The run is sequential; every external step (pip, apt-get, ffmpeg, the   *)
(* NVML library, the mirror chooser, the application spawn) is an outcome  *)
(* chosen by the environment when the step is taken.  Text is modelled as *)
(* sequences of one-character strings, a file as the sequence of lines    *)
(* that read().splitlines() yields.                                        *)
(***************************************************************************)
EXTENDS Integers, Sequences, FiniteSets, TLC

\* ------------------------------------------------------------------ bounds
\* Largest number of lines of requirements.txt.
MaxLines == 2
\* Largest device count nvmlDeviceGetCount reports.
MaxDevices == 1

\* ------------------------------------------------------------- text helpers
SP == " "

RECURSIVE lstrip(_)
lstrip(s) == IF s # <<>> /\ Head(s) = SP THEN lstrip(Tail(s)) ELSE s

RECURSIVE rstrip(_)
rstrip(s) ==
    IF s # <<>> /\ s[Len(s)] = SP THEN rstrip(SubSeq(s, 1, Len(s) - 1)) ELSE s

\* str.strip(): whitespace removed at both ends.
strip(s) == rstrip(lstrip(s))

\* str.startswith(p)
startswith(s, p) == Len(s) >= Len(p) /\ SubSeq(s, 1, Len(p)) = p

\* Positions at which p occurs in s.
Occurrences(s, p) ==
    {i \in 1..Len(s) : i + Len(p) - 1 <= Len(s) /\ SubSeq(s, i, i + Len(p) - 1) = p}

\* p in s
contains(s, p) == Occurrences(s, p) # {}

\* s.split(p)[0] when p occurs in s: the text before the first occurrence.
splitFirst(s, p) ==
    LET i == CHOOSE k \in Occurrences(s, p) : \A j \in Occurrences(s, p) : k <= j
    IN  SubSeq(s, 1, i - 1)

\* [f(x) for x in s]
RECURSIVE MapStrip(_)
MapStrip(s) == IF s = <<>> THEN <<>> ELSE <<strip(Head(s))>> \o MapStrip(Tail(s))

\* Number of entries of s equal to x.
RECURSIVE Count(_, _)
Count(s, x) ==
    IF s = <<>> THEN 0 ELSE (IF Head(s) = x THEN 1 ELSE 0) + Count(Tail(s), x)

\* --------------------------------------------------- the inputs of a run
HASH == <<"#">>
EQEQ == <<"=", "=">>
GEQ == <<">", "=">>
TORCH == <<"t", "o", "r", "c", "h">>
PkgA == <<"a">>
PkgB == <<"b">>

\* The lines a requirements.txt is made of.
LinePool ==
    { <<>>,                          \* an empty line
      <<" ">>,                       \* a line of whitespace
      <<"#", "x">>,                  \* a comment
      <<" ", "#", "x">>,             \* an indented comment
      PkgA,                          \* a bare name
      <<" ", "a">>,                  \* an indented name
      PkgA \o EQEQ \o <<"v">>,       \* a pinned version
      PkgB \o GEQ \o <<"v">>,        \* a minimum version
      TORCH \o EQEQ \o <<"v">> }     \* a torch package

RECURSIVE SeqsUpTo(_, _)
SeqsUpTo(S, n) ==
    IF n = 0 THEN {<<>>}
    ELSE LET shorter == SeqsUpTo(S, n - 1)
         IN  shorter \cup {Append(s, x) : s \in {t \in shorter : Len(t) = n - 1}, x \in S}

Files == SeqsUpTo(LinePool, MaxLines)
\* platform.system(): the three systems check_ffmpeg() names, and one it does not.
Systems == {"Linux", "Darwin", "Windows", "FreeBSD"}
InstalledSets == {{}, {PkgA}, {PkgA, PkgB}, {PkgA, PkgB, TORCH}}

VARIABLES
    colab,        \* is_colab(): google.colab can be imported
    system,       \* platform.system()
    ffmpeg,       \* 'ffmpeg -version' succeeds
    richAvail,    \* rich can be imported when main() starts
    reqExists,    \* requirements.txt exists
    reqLines,     \* its lines
    installed,    \* the distributions pkg_resources finds
    pc,           \* the position of main()
    exc,          \* the exception that ended the run, or "none"
    trace,        \* the external calls made, in order
    printed,      \* the messages printed
    requirements, \* the list check_requirements_satisfied() built
    satisfied,    \* its result
    gpuRet,       \* what check_nvidia_gpu() returned
    gpuFailed,    \* whether the GPU library was unavailable or raised in that call
    reqOutcome,   \* how install_requirements() ended
    tempExists,   \* requirements_temp.txt exists
    tempLines,    \* what was written to it
    ffmpegProbe,  \* what check_ffmpeg() found when called
    ffmpegRet     \* what check_ffmpeg() returned

vars == <<colab, system, ffmpeg, richAvail, reqExists, reqLines, installed, pc, exc,
          trace, printed, requirements, satisfied, gpuRet, gpuFailed, reqOutcome,
          tempExists, tempLines, ffmpegProbe, ffmpegRet>>

env == <<colab, system, ffmpeg, richAvail, reqExists, reqLines, installed>>

Init ==
    /\ colab \in BOOLEAN
    /\ system \in Systems
    /\ ffmpeg \in BOOLEAN
    /\ richAvail \in BOOLEAN
    /\ reqExists \in BOOLEAN
    /\ reqLines \in (IF reqExists THEN Files ELSE {<<>>})
    /\ installed \in InstalledSets
    /\ pc = "start"
    /\ exc = "none"
    /\ trace = <<>>
    /\ printed = {}
    /\ requirements = <<>>
    /\ satisfied = "notrun"
    /\ gpuRet = "notrun"
    /\ gpuFailed = FALSE
    /\ reqOutcome = "notrun"
    /\ tempExists = FALSE
    /\ tempLines = <<>>
    /\ ffmpegProbe = "notrun"
    /\ ffmpegRet = "notrun"

\* ------------------------------------------------------- the pure functions
\* requirements = [r.strip() for r in requirements if r.strip() and not r.startswith('#')]
KeptLine(r) == strip(r) # <<>> /\ ~startswith(r, HASH)

ParseRequirements(lines) == MapStrip(SelectSeq(lines, KeptLine))

\* The package name check_requirements_satisfied() takes from a requirement.
package_name(req) ==
    IF contains(req, EQEQ) THEN splitFirst(req, EQEQ)
    ELSE IF contains(req, GEQ) THEN splitFirst(req, GEQ)
    ELSE req

\* check_package_version(): the version ("version"), None when the distribution
\* is not found; pkg_resources raises another error for a name it cannot parse
\* as a requirement (here: a name that is a comment), which is not caught.
check_package_version(name, inst) ==
    IF startswith(name, HASH) THEN "raise"
    ELSE IF name \in inst THEN "version"
    ELSE "None"

\* The loop over the requirements: the first one that is missing or raises decides.
RECURSIVE AllInstalled(_, _)
AllInstalled(reqs, inst) ==
    IF reqs = <<>> THEN "True"
    ELSE LET v == check_package_version(package_name(Head(reqs)), inst)
         IN  IF v = "None" THEN "False"
             ELSE IF v = "raise" THEN "raise"
             ELSE AllInstalled(Tail(reqs), inst)

check_requirements_satisfied(exists, lines, inst) ==
    IF ~exists THEN [ret |-> "False", reqs |-> <<>>]
    ELSE [ret |-> AllInstalled(ParseRequirements(lines), inst),
          reqs |-> ParseRequirements(lines)]

\* What the NVML library and the pip install of pynvml do during one probe.
NvmlOutcomes ==
    [pip : BOOLEAN, imp : BOOLEAN, init : BOOLEAN, countOK : BOOLEAN,
     count : 0..MaxDevices, query : BOOLEAN, shutdown : BOOLEAN]

\* The value of the try block of check_nvidia_gpu(): NVMLError is caught.
NvmlBody(o) ==
    IF ~o.init THEN "False"
    ELSE IF ~o.countOK THEN "False"
    ELSE IF o.count > 0 THEN (IF o.query THEN "True" ELSE "False")
    ELSE "False"

\* check_nvidia_gpu(): the install and the import are outside the try block, and
\* an exception of nvmlShutdown() in the finally block replaces the return.
check_nvidia_gpu(o) ==
    IF ~o.pip THEN [ret |-> "none", exc |-> "CalledProcessError"]
    ELSE IF ~o.imp THEN [ret |-> "none", exc |-> "ImportError"]
    ELSE IF ~o.shutdown THEN [ret |-> "none", exc |-> "NVMLError"]
    ELSE [ret |-> NvmlBody(o), exc |-> "none"]

\* Whether the library was unavailable or raised somewhere in the probe o.
NvmlFailed(o) ==
    \/ ~o.pip
    \/ ~o.imp
    \/ ~o.init
    \/ o.init /\ ~o.countOK
    \/ o.init /\ o.countOK /\ o.count > 0 /\ ~o.query
    \/ ~o.shutdown

\* check_ffmpeg() with the is_colab() test lost: apt-get runs on every system.
check_ffmpeg_apt_everywhere(isColab, present, sys, updOK, instOK) ==
    IF present THEN
        [calls |-> <<"ffmpeg_version">>, prints |-> {"ffmpeg_ok"},
         exc |-> "none", ret |-> "True"]
    ELSE IF ~updOK THEN
        [calls |-> <<"ffmpeg_version", "apt_update">>, prints |-> {},
         exc |-> "CalledProcessError", ret |-> "none"]
    ELSE IF ~instOK THEN
        [calls |-> <<"ffmpeg_version", "apt_update", "apt_install">>, prints |-> {},
         exc |-> "CalledProcessError", ret |-> "none"]
    ELSE
        [calls |-> <<"ffmpeg_version", "apt_update", "apt_install">>,
         prints |-> {"ffmpeg_installed"}, exc |-> "none", ret |-> "True"]

\* check_ffmpeg() with the raise of SystemExit lost: it prints the guidance and
\* falls off its end, and main() does not look at what it returns.
check_ffmpeg_no_exit(isColab, present, sys, updOK, instOK) ==
    IF present THEN
        [calls |-> <<"ffmpeg_version">>, prints |-> {"ffmpeg_ok"},
         exc |-> "none", ret |-> "True"]
    ELSE IF isColab THEN
        IF ~updOK THEN
            [calls |-> <<"ffmpeg_version", "apt_update">>, prints |-> {},
             exc |-> "CalledProcessError", ret |-> "none"]
        ELSE IF ~instOK THEN
            [calls |-> <<"ffmpeg_version", "apt_update", "apt_install">>, prints |-> {},
             exc |-> "CalledProcessError", ret |-> "none"]
        ELSE
            [calls |-> <<"ffmpeg_version", "apt_update", "apt_install">>,
             prints |-> {"ffmpeg_installed"}, exc |-> "none", ret |-> "True"]
    ELSE
        [calls |-> <<"ffmpeg_version">>, prints |-> {"ffmpeg_missing"},
         exc |-> "none", ret |-> "None"]

\* check_ffmpeg(): the calls it makes, what it prints, and how it ends.
check_ffmpeg(isColab, present, sys, updOK, instOK) ==
    IF present THEN
        [calls |-> <<"ffmpeg_version">>, prints |-> {"ffmpeg_ok"},
         exc |-> "none", ret |-> "True"]
    ELSE IF isColab THEN
        IF ~updOK THEN
            [calls |-> <<"ffmpeg_version", "apt_update">>, prints |-> {},
             exc |-> "CalledProcessError", ret |-> "none"]
        ELSE IF ~instOK THEN
            [calls |-> <<"ffmpeg_version", "apt_update", "apt_install">>, prints |-> {},
             exc |-> "CalledProcessError", ret |-> "none"]
        ELSE
            [calls |-> <<"ffmpeg_version", "apt_update", "apt_install">>,
             prints |-> {"ffmpeg_installed"}, exc |-> "none", ret |-> "True"]
    ELSE IF sys \in {"Windows", "Darwin", "Linux"} THEN
        [calls |-> <<"ffmpeg_version">>, prints |-> {"ffmpeg_missing"},
         exc |-> "SystemExit", ret |-> "none"]
    ELSE
        \* extra_note is not bound on any other system
        [calls |-> <<"ffmpeg_version">>, prints |-> {},
         exc |-> "UnboundLocalError", ret |-> "none"]

\* requirements = [r for r in requirements if not r.startswith('torch')]
NotTorch(r) == ~startswith(r, TORCH)

\* install_requirements(): only CalledProcessError is caught.
install_requirements(isColab, exists, lines, pipOK) ==
    IF isColab THEN
        IF ~exists THEN
            [calls |-> <<>>, prints |-> {}, exc |-> "FileNotFoundError",
             outcome |-> "file_missing", temp |-> FALSE, written |-> <<>>]
        ELSE IF pipOK THEN
            [calls |-> <<"write_temp", "pip_req_temp", "remove_temp">>, prints |-> {},
             exc |-> "none", outcome |-> "ok", temp |-> FALSE,
             written |-> SelectSeq(lines, NotTorch)]
        ELSE
            [calls |-> <<"write_temp", "pip_req_temp">>, prints |-> {"req_failed"},
             exc |-> "none", outcome |-> "pip_failed", temp |-> TRUE,
             written |-> SelectSeq(lines, NotTorch)]
    ELSE IF pipOK /\ exists THEN
        [calls |-> <<"pip_req">>, prints |-> {}, exc |-> "none",
         outcome |-> "ok", temp |-> FALSE, written |-> <<>>]
    ELSE
        [calls |-> <<"pip_req">>, prints |-> {"req_failed"}, exc |-> "none",
         outcome |-> "pip_failed", temp |-> FALSE, written |-> <<>>]

\* has_gpu = platform.system() != 'Darwin' and check_nvidia_gpu()
has_gpu(sys, ret) == sys # "Darwin" /\ ret = "True"

\* The torch build main() installs.
torch_build(sys, ret) == IF has_gpu(sys, ret) THEN "pip_torch_cuda" ELSE "pip_torch_cpu"

\* ------------------------------------------------------------- the actions
\* main(), lines 121-127: the imports of rich and the first is_colab().
Start ==
    /\ pc = "start"
    /\ IF ~richAvail THEN
           /\ exc' = "ImportError"
           /\ pc' = "done"
           /\ printed' = printed
       ELSE
           /\ exc' = exc
           /\ pc' = IF colab THEN "check_reqs" ELSE "bootstrap"
           /\ printed' = IF colab THEN printed \cup {"colab"} ELSE printed
    /\ UNCHANGED <<env, trace, requirements, satisfied, gpuRet, gpuFailed, reqOutcome,
                   tempExists, tempLines, ffmpegProbe, ffmpegRet>>

\* main(), lines 130-131: check_requirements_satisfied() in the hosted runtime.
CheckReqs ==
    /\ pc = "check_reqs"
    /\ LET r == check_requirements_satisfied(reqExists, reqLines, installed)
       IN  /\ requirements' = r.reqs
           /\ satisfied' = r.ret
           /\ exc' = IF r.ret = "raise" THEN "ValueError" ELSE exc
           /\ pc' = IF r.ret = "True" THEN "early_ffmpeg"
                    ELSE IF r.ret = "raise" THEN "done"
                    ELSE "bootstrap"
           /\ printed' = IF r.ret = "True" THEN printed \cup {"already_installed"}
                         ELSE printed
    /\ UNCHANGED <<env, trace, gpuRet, gpuFailed, reqOutcome, tempExists, tempLines,
                   ffmpegProbe, ffmpegRet>>

\* The effect of a call of check_ffmpeg() whose result is r.
FfmpegCalled(r) ==
    /\ trace' = trace \o r.calls
    /\ exc' = r.exc
    /\ ffmpegProbe' = IF ffmpeg THEN "present" ELSE "absent"
    /\ ffmpegRet' = r.ret
    /\ ffmpeg' = (ffmpeg \/ "ffmpeg_installed" \in r.prints)
    /\ UNCHANGED <<colab, system, richAvail, reqExists, reqLines, installed, requirements,
                   satisfied, gpuRet, gpuFailed, reqOutcome, tempExists, tempLines>>

\* main(), lines 132-136: the early return of the hosted runtime.
EarlyFfmpeg ==
    /\ pc = "early_ffmpeg"
    /\ \E updOK \in BOOLEAN, instOK \in BOOLEAN :
         LET r == check_ffmpeg(colab, ffmpeg, system, updOK, instOK)
         IN  /\ FfmpegCalled(r)
             /\ printed' = IF r.exc = "none" THEN printed \cup r.prints \cup {"ready"}
                           ELSE printed \cup r.prints
    /\ pc' = "done"

\* main(), lines 138-153: install_package("requests", "rich", "ruamel.yaml").
Bootstrap ==
    /\ pc = "bootstrap"
    /\ trace' = Append(trace, "pip_bootstrap")
    /\ \E ok \in BOOLEAN :
         IF ok THEN
             /\ exc' = exc
             /\ printed' = printed \cup {"starting"}
             /\ pc' = IF colab THEN "install_requirements" ELSE "choose_mirror"
         ELSE
             /\ exc' = "CalledProcessError"
             /\ printed' = printed
             /\ pc' = "done"
    /\ UNCHANGED <<env, requirements, satisfied, gpuRet, gpuFailed, reqOutcome,
                   tempExists, tempLines, ffmpegProbe, ffmpegRet>>

\* main(), lines 156-157: choose_mirror() of core.pypi_autochoose.
ChooseMirror ==
    /\ pc = "choose_mirror"
    /\ trace' = Append(trace, "choose_mirror")
    /\ \E ok \in BOOLEAN :
         IF ok THEN
             /\ exc' = exc
             /\ pc' = IF system # "Darwin" THEN "gpu" ELSE "torch"
         ELSE
             /\ exc' = "Exception"
             /\ pc' = "done"
    /\ UNCHANGED <<env, printed, requirements, satisfied, gpuRet, gpuFailed, reqOutcome,
                   tempExists, tempLines, ffmpegProbe, ffmpegRet>>

\* main(), line 160: check_nvidia_gpu(), called unless the system is Darwin.
GpuProbe ==
    /\ pc = "gpu"
    /\ trace' = Append(trace, "pip_pynvml")
    /\ \E o \in NvmlOutcomes :
         LET r == check_nvidia_gpu(o)
         IN  /\ gpuRet' = r.ret
             /\ gpuFailed' = NvmlFailed(o)
             /\ exc' = r.exc
             /\ pc' = IF r.exc = "none" THEN "torch" ELSE "done"
    /\ UNCHANGED <<env, printed, requirements, satisfied, reqOutcome, tempExists,
                   tempLines, ffmpegProbe, ffmpegRet>>

\* main(), lines 161-167: the pip install of torch.
TorchInstall ==
    /\ pc = "torch"
    /\ trace' = Append(trace, torch_build(system, gpuRet))
    /\ \E ok \in BOOLEAN :
         IF ok THEN
             /\ exc' = exc
             /\ pc' = "install_requirements"
         ELSE
             /\ exc' = "CalledProcessError"
             /\ pc' = "done"
    /\ UNCHANGED <<env, printed, requirements, satisfied, gpuRet, gpuFailed, reqOutcome,
                   tempExists, tempLines, ffmpegProbe, ffmpegRet>>

\* main(), line 201: install_requirements().
InstallRequirements ==
    /\ pc = "install_requirements"
    /\ \E pipOK \in BOOLEAN :
         LET r == install_requirements(colab, reqExists, reqLines, pipOK)
         IN  /\ trace' = trace \o r.calls
             /\ printed' = printed \cup r.prints
             /\ exc' = r.exc
             /\ reqOutcome' = r.outcome
             /\ tempExists' = r.temp
             /\ tempLines' = r.written
             /\ pc' = IF r.exc = "none" THEN "ffmpeg" ELSE "done"
    /\ UNCHANGED <<env, requirements, satisfied, gpuRet, gpuFailed, ffmpegProbe, ffmpegRet>>

\* main(), line 202: check_ffmpeg() after the installs.
FinalFfmpeg ==
    /\ pc = "ffmpeg"
    /\ \E updOK \in BOOLEAN, instOK \in BOOLEAN :
         LET r == check_ffmpeg(colab, ffmpeg, system, updOK, instOK)
         IN  /\ FfmpegCalled(r)
             /\ printed' = printed \cup r.prints
             /\ pc' = IF r.exc = "none" THEN "launch" ELSE "done"

\* main(), lines 204-215: the closing messages and Popen(["streamlit", "run", "st.py"]).
Launch ==
    /\ pc = "launch"
    /\ printed' = printed \cup {"completed"}
    /\ trace' = Append(trace, "popen")
    /\ \E ok \in BOOLEAN : exc' = IF ok THEN exc ELSE "FileNotFoundError"
    /\ pc' = "done"
    /\ UNCHANGED <<env, requirements, satisfied, gpuRet, gpuFailed, reqOutcome,
                   tempExists, tempLines, ffmpegProbe, ffmpegRet>>

Next ==
    \/ Start
    \/ CheckReqs
    \/ EarlyFfmpeg
    \/ Bootstrap
    \/ ChooseMirror
    \/ GpuProbe
    \/ TorchInstall
    \/ InstallRequirements
    \/ FinalFfmpeg
    \/ Launch

Spec == Init /\ [][Next]_vars

\* ---------------------------------------------------------------- the claims
PipCalls ==
    {"pip_bootstrap", "pip_pynvml", "pip_torch_cuda", "pip_torch_cpu", "pip_req_temp",
     "pip_req"}
TorchCalls == {"pip_torch_cuda", "pip_torch_cpu"}
AptCalls == {"apt_update", "apt_install"}

\* Some call of the set S has been made.
Called(S) == \E i \in 1..Len(trace) : trace[i] \in S

\* The number of calls of the set S made so far.
Calls(S) == Cardinality({i \in 1..Len(trace) : trace[i] \in S})

\* The call c was made, and before every call of the set S.
Before(c, S) ==
    \E i \in 1..Len(trace) :
        /\ trace[i] = c
        /\ \A j \in 1..Len(trace) : trace[j] \in S => i < j

C2_ProbeNeverRaises ==
    (gpuRet # "notrun" /\ gpuFailed) => gpuRet = "False"

\* C3, as claimed: a hosted run in which every requirement is installed ends
\* with no pip install, no requirements_temp.txt, no application launch, the
\* readiness message printed and a normal return.
C3_SatisfiedRunReportsReady ==
    (colab /\ satisfied = "True" /\ pc = "done")
        => /\ ~Called(PipCalls)
           /\ ~Called({"write_temp"})
           /\ ~Called({"popen"})
           /\ "ready" \in printed
           /\ exc = "none"

\* C4, as claimed: a call of check_ffmpeg() with ffmpeg absent in the hosted
\* runtime attempts 'apt-get install -y ffmpeg' exactly once, also when
\* 'apt-get update' fails; with ffmpeg present or not hosted it attempts none.
C4_AptInstallExactlyOnce ==
    /\ (colab /\ ffmpegProbe = "absent") => Calls({"apt_install"}) = 1
    /\ (~colab \/ ffmpegProbe # "absent") => Calls({"apt_install"}) = 0

\* C5, as claimed: after any failure of install_requirements() the failure is
\* logged and main() goes on to check_ffmpeg() and, if that returns True, to
\* the launch of the application.
C5_RequirementsFailureNotFatal ==
    (reqOutcome \in {"pip_failed", "file_missing"})
        => /\ "req_failed" \in printed
           /\ pc = "ffmpeg" \/ ffmpegProbe # "notrun"
           /\ ffmpegRet = "True" => (pc = "launch" \/ Called({"popen"}))

\* C6, as claimed: a run that got past its imports ends with an exception (a
\* non-zero exit) only in check_ffmpeg() with ffmpeg absent and not hosted.
C6_OnlyFfmpegStopsRun ==
    (pc = "done" /\ richAvail /\ exc # "none")
        => (~colab /\ ffmpegProbe = "absent"
              /\ exc \in {"SystemExit", "UnboundLocalError"})

\* A line that is neither blank nor a comment: its first non-blank character
\* exists and is not '#'.
OtherLine(r) == strip(r) # <<>> /\ ~startswith(strip(r), HASH)

\* C7, as claimed: the list check_requirements_satisfied() builds has one entry
\* for every line of requirements.txt that is neither blank nor a comment,
\* indented or not, and no other entry.
C7_CountsOtherLines ==
    (satisfied # "notrun" /\ reqExists)
        => Len(requirements) = Len(SelectSeq(reqLines, OtherLine))

\* C8, as claimed: requirements_temp.txt is written only in the hosted
\* runtime, and once install_requirements() is over, however it ended, the
\* file does not exist.
C8_TempFileTransient ==
    /\ Called({"write_temp"}) => colab
    /\ reqOutcome # "notrun" => ~tempExists

\* C9: the application is launched at most once in a run, the launch is the
\* last external call, and it is made only after install_requirements() has
\* finished and check_ffmpeg() has returned True; never on the early return of
\* the hosted runtime, never after check_ffmpeg() ended the run.
C9_LaunchLastAndGuarded ==
    /\ Calls({"popen"}) <= 1
    /\ Called({"popen"})
         => /\ trace[Len(trace)] = "popen"
            /\ reqOutcome \in {"ok", "pip_failed"}
            /\ Before("ffmpeg_version", {"popen"})
            /\ Before("pip_bootstrap", {"popen"})
            /\ ffmpegRet = "True"
    /\ satisfied = "True" => ~Called({"popen"})
    /\ ffmpegRet \notin {"notrun", "True"} => (~Called({"popen"}) /\ pc = "done")

C9_Witness ==
    /\ Called({"popen"})
    /\ colab
    /\ ffmpegProbe = "absent"
    /\ reqOutcome = "pip_failed"

\* C10, as claimed: a hosted run calls neither the mirror chooser, the GPU
\* probe nor a torch install and leaves the torch lines out of what it
\* installs; a non-hosted run that got past the mirror chooser attempts exactly
\* one torch install, the CUDA build iff the system is not Darwin and the probe
\* returned True; on Darwin the probe is never called.
C10_TorchVariant ==
    /\ colab => /\ ~Called({"choose_mirror", "pip_pynvml"} \cup TorchCalls)
                /\ \A i \in 1..Len(tempLines) : ~startswith(tempLines[i], TORCH)
    /\ (~colab /\ pc = "done" /\ Called({"choose_mirror"}) /\ exc # "Exception")
         => /\ Calls(TorchCalls) = 1
            /\ Called({"pip_torch_cuda"}) <=> (system # "Darwin" /\ gpuRet = "True")
    /\ system = "Darwin" => ~Called({"pip_pynvml"})

====
